---- MODULE Spec2Model ----
(***************************************************************************)
(* Logo-Downloader-Pro: the multi-source search orchestrator               *)
(* (LogoSearchManager), its worker threads (LogoSearchWorker) and the      *)
(* SQLite tables they use (Database), modelled from src/logo_downloader.py.*)
(*                                                                         *)
(* Threads.  Every LogoSearchWorker is a QThread; its signals are          *)
(* connected to slots of the manager, which lives in the GUI thread, so    *)
(* every emission made inside run() is posted to the GUI thread's event    *)
(* queue and the slots run one at a time in posting order.  The variable   *)
(* `events' is that queue.  start_search and each slot are atomic actions; *)
(* the workers interleave freely between them.                             *)
(***************************************************************************)
EXTENDS Integers, Sequences, FiniteSets, TLC

(* ------------------------------ bounds -------------------------------- *)

\* number of entries of LOGO_SOURCES that are modelled (a prefix of the list)
NumSources == 2
\* candidates all the adapters of one search emit at most
MaxEmit == 2
\* largest max_results / concurrent_searches a caller passes in a flat dict
MaxResultsBound == 2
MaxConcurrentBound == 2
\* Database calls (and clock ticks) made in one run of the Database model
MaxDbOps == 4

(* --------------------------- program constants ------------------------ *)

DEFAULT_max_results == 10
DEFAULT_search_all_sources == TRUE
DEFAULT_concurrent_searches == 3
DEFAULT_cache_expiry_days == 30
SVG_BONUS == 10

LOGO_SOURCES ==
  << [name |-> "SimpleIcons",    priority |-> 5,  base_quality |-> 80],
     [name |-> "Brandfetch",     priority |-> 10, base_quality |-> 90],
     [name |-> "Clearbit",       priority |-> 8,  base_quality |-> 75],
     [name |-> "Wikipedia",      priority |-> 7,  base_quality |-> 85],
     [name |-> "BrandDB",        priority |-> 6,  base_quality |-> 70],
     [name |-> "CompanyWebsite", priority |-> 9,  base_quality |-> 85],
     [name |-> "SocialMedia",    priority |-> 4,  base_quality |-> 75],
     [name |-> "GoogleSearch",   priority |-> 3,  base_quality |-> 65],
     [name |-> "BingSearch",     priority |-> 2,  base_quality |-> 60],
     [name |-> "DuckDuckGo",     priority |-> 1,  base_quality |-> 60],
     [name |-> "VectorDB",       priority |-> 5,  base_quality |-> 80] >>

Sources == 1..NumSources

\* the search_<name> methods LogoSearchWorker defines
SearchMethods ==
  {"SimpleIcons", "Brandfetch", "Clearbit", "Wikipedia", "BrandDB",
   "CompanyWebsite", "SocialMedia", "GoogleSearch", "BingSearch",
   "DuckDuckGo", "VectorDB"}

\* the company the manager is constructed for, and another one in the tables
Company == "acme"
OtherCompany == "zeta"

(* ------------------------------ helpers ------------------------------- *)

\* dict.get(key, default)
Get(d, key, default) == IF key \in DOMAIN d THEN d[key] ELSE default

Last(s) == s[Len(s)]

\* the value of db_op and fn while no call has been made
\* Python's None as a value of image_data
PyNone == "None"

NoCall == [op |-> "none", n |-> 0, arg |-> <<>>, ret |-> <<>>, hit |-> FALSE]

RECURSIVE SumOver(_, _)
SumOver(f, S) ==
  IF S = {} THEN 0
  ELSE LET x == CHOOSE y \in S : TRUE IN f[x] + SumOver(f, S \ {x})

(* ------------------------------ state --------------------------------- *)

VARIABLES
  settings,          \* the dict handed to LogoSearchManager.__init__
  enabled,           \* LOGO_SOURCES[i]['enabled']
  now,               \* the database clock, in days
  logo_cache,        \* table logo_cache
  search_history,    \* table search_history
  favorites,         \* table favorites
  db_op,             \* the last Database call made directly: its arguments
                     \* and what it returned
  fn,                \* the last call of a pure function: its input and output
  db_healthy,        \* FALSE while the statements of the Database raise
                     \* sqlite3.Error (file locked, disk full)
  sent,              \* per worker: the results add_result has emitted, in order
  pc,                \* "constructed" until start_search has run
  cache_results,     \* what get_from_cache returned to start_search
  results,           \* self.results
  workers,           \* self.workers (sources in start order)
  completed_sources, \* self.completed_sources
  active_workers,    \* self.active_workers
  search_queue,      \* self.search_queue
  wstate,            \* per worker thread: idle, running, cancelled (terminate()
                     \* was called), finished (run() returned after the search
                     \* method returned), raised (run() returned through its
                     \* except branch)
  emitted,           \* per worker: candidates handed to add_result so far
  terminals,         \* per worker: search_complete emissions made by run()
  events,            \* queued signal deliveries to the manager's slots
  result_signals,    \* manager.search_result emissions so far
  out_complete       \* manager.search_complete emissions, in order

vars == << settings, enabled, now, logo_cache, search_history, favorites,
           db_op, fn, db_healthy, sent, pc,
           cache_results, results, workers, completed_sources,
           active_workers, search_queue, wstate, emitted, terminals,
           events, result_signals, out_complete >>

dbVars == << now, logo_cache, search_history, favorites, db_op, fn,
            db_healthy >>
mgrVars == << pc, cache_results, results, workers, completed_sources,
              active_workers, search_queue, result_signals, out_complete >>

(* ------------------------------ Database ------------------------------ *)

\* a plain INSERT: the row of an earlier write with the same key stays
add_to_cache_insert(cache, r, t) ==
  cache
  \cup { [company_name |-> r.company_name, source |-> r.source,
          format_type |-> r.format_type, image_data |-> r.image_data,
          score |-> r.score, timestamp |-> t] }

\* INSERT OR REPLACE INTO logo_cache ... UNIQUE(company_name, source, format_type)
add_to_cache(cache, r, t) ==
  { row \in cache : ~ ( /\ row.company_name = r.company_name
                        /\ row.source = r.source
                        /\ row.format_type = r.format_type ) }
  \cup { [company_name |-> r.company_name, source |-> r.source,
          format_type |-> r.format_type, image_data |-> r.image_data,
          score |-> r.score, timestamp |-> t] }

\* a freshness test that also takes the rows exactly max_age_days old
FreshRows_ge(cache, company_name, max_age_days, t) ==
  { row \in cache : /\ row.company_name = company_name
                    /\ row.timestamp >= t - max_age_days }

\* rows of the company younger than max_age_days
FreshRows(cache, company_name, max_age_days, t) ==
  { row \in cache : /\ row.company_name = company_name
                    /\ row.timestamp > t - max_age_days }

\* a cache read that scores its rows again
RowResult_rescored(row) ==
  [company_name |-> row.company_name, source |-> row.source,
   format_type |-> row.format_type, image_data |-> row.image_data,
   score |-> row.score
             + LOGO_SOURCES[CHOOSE i \in 1..Len(LOGO_SOURCES) :
                              LOGO_SOURCES[i].name = row.source].base_quality
             + (IF row.format_type = "svg" THEN SVG_BONUS ELSE 0)]

RowResult(row) ==
  [company_name |-> row.company_name, source |-> row.source,
   format_type |-> row.format_type, image_data |-> row.image_data,
   score |-> row.score]

\* SELECT ... ORDER BY score DESC: every ordering of the fresh rows with
\* non-increasing score (SQL leaves the order of equal scores open)
get_from_cache(cache, company_name, max_age_days, t) ==
  LET rows == FreshRows(cache, company_name, max_age_days, t)
      n == Cardinality(rows)
  IN { [i \in 1..n |-> RowResult(f[i])] :
         f \in { g \in [1..n -> rows] :
                   /\ \A i, j \in 1..n : i # j => g[i] # g[j]
                   /\ \A i, j \in 1..n : i < j => g[i].score >= g[j].score } }

\* an add_to_cache whose except branch has written the row all the same
add_to_cache_call_dirty(cache, r, t, healthy) ==
  [ret |-> healthy, logo_cache |-> add_to_cache(cache, r, t)]

\* add_to_cache with its try / except: True and the row written, or, when
\* the statement raises sqlite3.Error, False and the table as it was
add_to_cache_call(cache, r, t, healthy) ==
  IF healthy
  THEN [ret |-> TRUE, logo_cache |-> add_to_cache(cache, r, t)]
  ELSE [ret |-> FALSE, logo_cache |-> cache]

\* get_from_cache with its try / except: [] when the SELECT raises
get_from_cache_call(cache, company_name, max_age_days, t, healthy) ==
  IF healthy
  THEN get_from_cache(cache, company_name, max_age_days, t)
  ELSE { <<>> }

\* INSERT OR REPLACE INTO search_history ... UNIQUE(company_name)
add_to_history(history, company_name, results_count, t) ==
  { row \in history : row.company_name # company_name }
  \cup { [company_name |-> company_name, results_count |-> results_count,
          timestamp |-> t] }

\* add_to_history with its try / except
add_to_history_call(history, company_name, results_count, t, healthy) ==
  IF healthy
  THEN [ret |-> TRUE,
        search_history |-> add_to_history(history, company_name, results_count, t)]
  ELSE [ret |-> FALSE, search_history |-> history]

\* a plain INSERT into favorites
add_to_favorites_insert(fav, r, t) ==
  fav
  \cup { [company_name |-> r.company_name, image_data |-> r.image_data,
          format_type |-> r.format_type, timestamp |-> t] }

\* INSERT OR REPLACE INTO favorites ... UNIQUE(company_name)
add_to_favorites(fav, r, t) ==
  { row \in fav : row.company_name # r.company_name }
  \cup { [company_name |-> r.company_name, image_data |-> r.image_data,
          format_type |-> r.format_type, timestamp |-> t] }

\* a DELETE FROM favorites without its WHERE clause
remove_from_favorites_all(fav, company_name) == {}

\* DELETE FROM favorites WHERE company_name = ?
remove_from_favorites(fav, company_name) ==
  { row \in fav : row.company_name # company_name }

\* a purge that also deletes the rows exactly max_age_days old
clear_cache_le(cache, given, max_age_days, t) ==
  IF given
  THEN { row \in cache : ~ (row.timestamp <= t - max_age_days) }
  ELSE {}

\* clear_cache: with max_age_days given, DELETE ... WHERE timestamp is before
\* now - max_age_days; with None, DELETE FROM logo_cache
clear_cache(cache, given, max_age_days, t) ==
  IF given
  THEN { row \in cache : ~ (row.timestamp < t - max_age_days) }
  ELSE {}

\* LogoDownloaderApp.clear_history: DELETE FROM search_history
clear_history(history) == {}

(* --------------------------- LogoSearchWorker ------------------------- *)

\* what the adapter's LogoResult(...) constructor calls can produce:
\* (format_type, score) before add_result
AdapterCandidates(name, s) ==
  CASE name = "SimpleIcons" -> { [format_type |-> "svg", score |-> 10] }
    [] name = "Brandfetch" ->
         { raw \in (IF Get(s, "brandfetch_api_key", "") # ""
                     THEN { [format_type |-> "png", score |-> 15],
                            [format_type |-> "svg", score |-> 20] }
                     ELSE { [format_type |-> "png", score |-> 10],
                            [format_type |-> "svg", score |-> 15] }) :
             \/ raw.format_type = "png" /\ Get(s, "download_png", TRUE)
             \/ raw.format_type = "svg" /\ Get(s, "download_svg", TRUE) }
    [] name = "Clearbit" -> { [format_type |-> "png", score |-> 5] }
    [] name = "Wikipedia" -> { [format_type |-> "png", score |-> 10],
                               [format_type |-> "svg", score |-> 10],
                               [format_type |-> "jpg", score |-> 10] }
    [] OTHER -> {}

\* how many results one run of the adapter can hand to add_result:
\* search_wikipedia returns after its first, the placeholders have none
EmitLimit(name) ==
  CASE name = "Wikipedia" -> 1
    [] name \in {"BrandDB", "SocialMedia", "VectorDB"} -> 0
    [] OTHER -> MaxEmit

\* a LogoResult constructed without image_data (the default, None)
add_result_nodata(raw, source) ==
  [company_name |-> Company, source |-> source.name,
   format_type |-> raw.format_type, image_data |-> PyNone,
   score |-> raw.score + source.base_quality
             + (IF raw.format_type = "svg" THEN SVG_BONUS ELSE 0)]

\* a scorer that sets the score instead of adding to it
add_result_reset(raw, source) ==
  [company_name |-> Company, source |-> source.name,
   format_type |-> raw.format_type, image_data |-> "content",
   score |-> source.base_quality
             + (IF raw.format_type = "svg" THEN SVG_BONUS ELSE 0)]

\* add_result: the source's base quality and the svg bonus are added
add_result(raw, source) ==
  [company_name |-> Company, source |-> source.name,
   format_type |-> raw.format_type, image_data |-> "content",
   score |-> raw.score + source.base_quality
             + (IF raw.format_type = "svg" THEN SVG_BONUS ELSE 0)]

\* a run() without its except branch: a raising search method ends the
\* thread without a search_complete emission
run_noexcept(source_name, outcome, success) ==
  IF source_name \in SearchMethods
  THEN IF outcome = "return"
       THEN << [type |-> "complete", source |-> source_name, ok |-> success] >>
       ELSE <<>>
  ELSE << [type |-> "complete", source |-> source_name, ok |-> FALSE] >>

\* run(): the search_complete emissions for one ending of the search method.
\* outcome "return": the method returned `success'; "raise": it raised.
run(source_name, outcome, success) ==
  IF source_name \in SearchMethods
  THEN IF outcome = "return"
       THEN << [type |-> "complete", source |-> source_name, ok |-> success] >>
       ELSE << [type |-> "complete", source |-> source_name, ok |-> FALSE] >>
  ELSE << [type |-> "complete", source |-> source_name, ok |-> FALSE] >>

\* QThread.terminate() kills the thread at a point the operating system
\* chooses: a cancelled worker may take further steps or none at all, and a
\* worker that takes none is the killed thread
isRunning(w) == wstate[w] \in {"running", "cancelled"}

\* the adapter downloads one more image and calls add_result
WorkerEmit(w) ==
  /\ isRunning(w)
  /\ emitted[w] < EmitLimit(LOGO_SOURCES[w].name)
  /\ SumOver(emitted, Sources) < MaxEmit
  /\ \E raw \in AdapterCandidates(LOGO_SOURCES[w].name, settings) :
       events' = Append(events,
                   [type |-> "result", source |-> LOGO_SOURCES[w].name,
                    result |-> add_result(raw, LOGO_SOURCES[w])])
  /\ emitted' = [emitted EXCEPT ![w] = @ + 1]
  /\ sent' = [sent EXCEPT ![w] = Append(@, Last(events').result)]
  /\ UNCHANGED << settings, enabled, dbVars, mgrVars, wstate, terminals >>

\* the search method ends (every adapter returns success = "found one")
\* and run() emits search_complete
WorkerFinish(w) ==
  /\ isRunning(w)
  /\ \E outcome \in {"return", "raise"} :
       LET out == run(LOGO_SOURCES[w].name, outcome, emitted[w] > 0)
       IN /\ events' = events \o out
          /\ terminals' = [terminals EXCEPT ![w] = @ + Len(out)]
          /\ wstate' = [wstate EXCEPT ![w] =
                          IF outcome = "raise" THEN "raised" ELSE "finished"]
  /\ UNCHANGED << settings, enabled, dbVars, mgrVars, emitted, sent >>

(* --------------------------- LogoSearchManager ------------------------ *)

max_concurrent == Get(settings, "concurrent_searches", DEFAULT_concurrent_searches)
max_results == Get(settings, "max_results", DEFAULT_max_results)
search_all_sources == Get(settings, "search_all_sources", DEFAULT_search_all_sources)
cache_expiry_days == Get(settings, "cache_expiry_days", DEFAULT_cache_expiry_days)

\* a loop condition that admits one worker too many
\* a loop that stops as soon as one worker is active
CanStart_one(queue, active, limit) == queue # <<>> /\ active < 1

CanStart_le(queue, active, limit) == queue # <<>> /\ active <= limit

\* the loop condition of start_workers
CanStart(queue, active, limit) == queue # <<>> /\ active < limit

\* a start_worker that counts the thread twice
start_worker_counted_twice(m, w) ==
  [m EXCEPT !.workers = Append(@, w),
            !.active_workers = @ + 2,
            !.wstate = [@ EXCEPT ![w] = "running"]]

\* start_worker: create the thread, count it, start it
start_worker(m, w) ==
  [m EXCEPT !.workers = Append(@, w),
            !.active_workers = @ + 1,
            !.wstate = [@ EXCEPT ![w] = "running"]]

\* start_workers: while the queue is not empty and a slot is free
RECURSIVE start_workers(_)
start_workers(m) ==
  IF CanStart(m.search_queue, m.active_workers, max_concurrent)
  THEN start_workers(
         start_worker([m EXCEPT !.search_queue = Tail(@)], Head(m.search_queue)))
  ELSE m

\* the enabled sources in list order
RECURSIVE EnabledFrom(_)
EnabledFrom(i) ==
  IF i > NumSources THEN <<>>
  ELSE (IF enabled[i] THEN << i >> ELSE <<>>) \o EnabledFrom(i + 1)

\* a result that is put at the front of the list
Collected_front(rs, r) == << r >> \o rs

\* a result that is appended twice
Collected_twice(rs, r) == Append(Append(rs, r), r)

\* self.results.append(result)
Collected(rs, r) == Append(rs, r)

\* a success flag that is true of an empty result list
DrainSuccess_ge(rs) == Len(rs) >= 0

\* the success flag of the completion emitted when the queue has drained
DrainSuccess(rs) == Len(rs) > 0

\* the early-stop test of start_search and handle_search_result
Enough(count) == count >= max_results /\ ~ search_all_sources

\* search_complete.emit(success, self.results): the flag, the length of the
\* list at the time of the emission, and the place of the emission
Completion(success, all_results, path) ==
  [success |-> success, count |-> Len(all_results), path |-> path]

start_search ==
  /\ pc = "constructed"
  /\ pc' = "started"
  /\ \E cr \in get_from_cache_call(logo_cache, Company, cache_expiry_days,
                                   now, db_healthy) :
       /\ cache_results' = cr
       /\ results' = results \o cr
       /\ result_signals' = result_signals + Len(cr)
       /\ IF cr # <<>> /\ Enough(Len(cr))
          THEN /\ out_complete' = Append(out_complete, Completion(TRUE, results \o cr, "cache"))
               /\ UNCHANGED << search_queue, active_workers, workers, wstate >>
          ELSE LET m == start_workers(
                          [search_queue |-> search_queue \o EnabledFrom(1),
                           active_workers |-> active_workers,
                           workers |-> workers, wstate |-> wstate])
               IN /\ search_queue' = m.search_queue
                  /\ active_workers' = m.active_workers
                  /\ workers' = m.workers
                  /\ wstate' = m.wstate
                  /\ UNCHANGED out_complete
  /\ UNCHANGED << settings, enabled, dbVars, completed_sources, emitted,
                  sent, terminals, events >>

\* worker.terminate() for every worker that isRunning()
TerminateRunning(ws) ==
  [w \in DOMAIN ws |->
     IF (\E i \in 1..Len(workers) : workers[i] = w)
        /\ ws[w] \in {"running", "cancelled"}
     THEN "cancelled" ELSE ws[w]]

handle_search_result ==
  /\ pc = "started"
  /\ events # <<>>
  /\ Head(events).type = "result"
  /\ events' = Tail(events)
  /\ results' = Collected(results, Head(events).result)
  /\ logo_cache' = add_to_cache_call(logo_cache, Head(events).result, now,
                                     db_healthy).logo_cache
  /\ result_signals' = result_signals + 1
  /\ IF Enough(Len(results'))
     THEN /\ wstate' = TerminateRunning(wstate)
          /\ out_complete' = Append(out_complete, Completion(TRUE, results', "early"))
     ELSE UNCHANGED << wstate, out_complete >>
  /\ UNCHANGED << settings, enabled, now, search_history, favorites, db_op,
                  fn, db_healthy, sent, pc, cache_results, workers,
                  completed_sources, active_workers, search_queue, emitted,
                  terminals >>

handle_search_complete ==
  /\ pc = "started"
  /\ events # <<>>
  /\ Head(events).type = "complete"
  /\ events' = Tail(events)
  /\ completed_sources' = completed_sources \cup { Head(events).source }
  /\ LET m == start_workers(
                [search_queue |-> search_queue,
                 active_workers |-> active_workers - 1,
                 workers |-> workers, wstate |-> wstate])
     IN /\ search_queue' = m.search_queue
        /\ active_workers' = m.active_workers
        /\ workers' = m.workers
        /\ wstate' = m.wstate
        /\ IF m.active_workers = 0 /\ m.search_queue = <<>>
           THEN /\ search_history' =
                     add_to_history_call(search_history, Company,
                                         Len(results), now,
                                         db_healthy).search_history
                /\ out_complete' =
                     Append(out_complete, Completion(DrainSuccess(results), results, "drain"))
           ELSE UNCHANGED << search_history, out_complete >>
  /\ UNCHANGED << settings, enabled, now, logo_cache, favorites, db_op, fn,
                  db_healthy, sent, pc, cache_results, results, emitted,
                  terminals, result_signals >>

(* --------------------------- initial states --------------------------- *)

\* the flat dicts a caller of LogoSearchManager can pass, and the nested
\* dict LogoDownloaderApp.search_logos passes (none of the keys the manager
\* reads is at its top level)
FlatSettings ==
  { d \in [max_results : 0..MaxResultsBound, search_all_sources : BOOLEAN,
           concurrent_searches : 1..MaxConcurrentBound] :
      d.search_all_sources => d.max_results = MaxResultsBound }

AppSettings ==
  { [general |-> [max_results |-> 1, search_all_sources |-> FALSE],
     advanced |-> [concurrent_searches |-> 1]] }

Now0 == 40

CacheRow(c, s, f, sc, t) ==
  [company_name |-> c, source |-> s, format_type |-> f,
   image_data |-> "content", score |-> sc, timestamp |-> t]

\* the tables earlier searches can have left behind
InitialCaches ==
  { {},
    { CacheRow(Company, "SimpleIcons", "svg", 100, Now0 - 1) },
    { CacheRow(Company, "SimpleIcons", "svg", 100, Now0 - 1),
      CacheRow(Company, "Clearbit", "png", 80, Now0 - 2) },
    { CacheRow(Company, "Clearbit", "png", 80, Now0 - DEFAULT_cache_expiry_days),
      CacheRow(OtherCompany, "SimpleIcons", "svg", 100, Now0 - 1) } }

Init ==
  /\ settings \in FlatSettings \cup AppSettings
  /\ enabled \in [Sources -> BOOLEAN]
  /\ now = Now0
  /\ logo_cache \in InitialCaches
  /\ search_history = {}
  /\ favorites = {}
  /\ db_op = NoCall
  /\ fn = NoCall
  /\ db_healthy = TRUE
  /\ sent = [w \in Sources |-> <<>>]
  /\ pc = "constructed"
  /\ cache_results = <<>>
  /\ results = <<>>
  /\ workers = <<>>
  /\ completed_sources = {}
  /\ active_workers = 0
  /\ search_queue = <<>>
  /\ wstate = [w \in Sources |-> "idle"]
  /\ emitted = [w \in Sources |-> 0]
  /\ terminals = [w \in Sources |-> 0]
  /\ events = <<>>
  /\ result_signals = 0
  /\ out_complete = <<>>

Next ==
  \/ start_search
  \/ handle_search_result
  \/ handle_search_complete
  \/ \E w \in Sources : WorkerEmit(w)
  \/ \E w \in Sources : WorkerFinish(w)

Spec == Init /\ [][Next]_vars

(* ----------------------- the search, scheduled fairly ----------------- *)

\* The event loop of the manager's thread delivers every queued signal, and
\* the search method of a thread that was not terminated returns or raises
\* (every request has a timeout).  A terminated thread owes no further step.
Fairness ==
  /\ WF_vars(start_search)
  /\ WF_vars(handle_search_result)
  /\ WF_vars(handle_search_complete)
  /\ \A w \in Sources : WF_vars(wstate[w] = "running" /\ WorkerFinish(w))

SpecLive == Init /\ [][Next]_vars /\ Fairness

(* ------------------- the search on a failing database ----------------- *)

\* the statements of the Database begin or cease to raise sqlite3.Error
DbFault ==
  /\ db_healthy' = ~ db_healthy
  /\ UNCHANGED << settings, enabled, now, logo_cache, search_history,
                  favorites, db_op, fn, sent, mgrVars, wstate, emitted,
                  terminals, events >>

NextFail ==
  \/ Next
  \/ DbFault

\* every source enabled: which sources take part has no bearing on what a
\* failing statement does
InitFail ==
  /\ Init
  /\ enabled = [w \in Sources |-> TRUE]
  /\ logo_cache \in { c \in InitialCaches : Cardinality(c) <= 1 }

SpecFail == InitFail /\ [][NextFail]_vars

(* ------------------------ the Database on its own --------------------- *)

\* the keys, payloads and ages the Database calls are made with
DbKeys ==
  { [company_name |-> Company, source |-> "SimpleIcons", format_type |-> "svg"],
    [company_name |-> Company, source |-> "Clearbit", format_type |-> "png"],
    [company_name |-> Company, source |-> "Clearbit", format_type |-> "svg"],
    [company_name |-> OtherCompany, source |-> "SimpleIcons", format_type |-> "svg"] }

DbPayloads ==
  { [image_data |-> "content", score |-> 100],
    [image_data |-> "content2", score |-> 90] }

DbCompanies == { Company, OtherCompany }

DbAges == { 1, 2, DEFAULT_cache_expiry_days }

\* the record of one call: `hit' tells whether a write found a row with its
\* key already in the table
DbCall(op, arg, ret, hit) ==
  [op |-> op, n |-> db_op.n + 1, arg |-> arg, ret |-> ret, hit |-> hit]

orchVars == << settings, enabled, fn, db_healthy, sent, pc, cache_results, results, workers,
               completed_sources, active_workers, search_queue, wstate,
               emitted, terminals, events, result_signals, out_complete >>

DbPut ==
  /\ db_op.n < MaxDbOps
  /\ \E k \in DbKeys, p \in DbPayloads :
       LET r == [company_name |-> k.company_name, source |-> k.source,
                 format_type |-> k.format_type, image_data |-> p.image_data,
                 score |-> p.score]
       IN /\ logo_cache' = add_to_cache(logo_cache, r, now)
          /\ db_op' = DbCall("add_to_cache", r, TRUE,
                             \E row \in logo_cache :
                               /\ row.company_name = r.company_name
                               /\ row.source = r.source
                               /\ row.format_type = r.format_type)
  /\ UNCHANGED << now, search_history, favorites, orchVars >>

DbGet ==
  /\ db_op.n < MaxDbOps
  /\ \E c \in DbCompanies, a \in DbAges :
       \E r \in get_from_cache(logo_cache, c, a, now) :
         db_op' = DbCall("get_from_cache",
                         [company_name |-> c, max_age_days |-> a], r, FALSE)
  /\ UNCHANGED << now, logo_cache, search_history, favorites, orchVars >>

DbPurge ==
  /\ db_op.n < MaxDbOps
  /\ \E given \in BOOLEAN, a \in DbAges :
       /\ ~ given => a = DEFAULT_cache_expiry_days
       /\ logo_cache' = clear_cache(logo_cache, given, a, now)
       /\ db_op' = DbCall("clear_cache",
                          [given |-> given, max_age_days |-> a], TRUE, FALSE)
  /\ UNCHANGED << now, search_history, favorites, orchVars >>

DbAddHistory ==
  /\ db_op.n < MaxDbOps
  /\ \E c \in DbCompanies, cnt \in 0..1 :
       /\ search_history' = add_to_history(search_history, c, cnt, now)
       /\ db_op' = DbCall("add_to_history",
                          [company_name |-> c, results_count |-> cnt], TRUE,
                          \E row \in search_history : row.company_name = c)
  /\ UNCHANGED << now, logo_cache, favorites, orchVars >>

DbAddFavorite ==
  /\ db_op.n < MaxDbOps
  /\ \E c \in DbCompanies, p \in DbPayloads :
       LET r == [company_name |-> c, image_data |-> p.image_data,
                 format_type |-> IF p.score = 100 THEN "svg" ELSE "png"]
       IN /\ favorites' = add_to_favorites(favorites, r, now)
          /\ db_op' = DbCall("add_to_favorites", r, TRUE,
                             \E row \in favorites : row.company_name = c)
  /\ UNCHANGED << now, logo_cache, search_history, orchVars >>

DbRemoveFavorite ==
  /\ db_op.n < MaxDbOps
  /\ \E c \in DbCompanies :
       /\ favorites' = remove_from_favorites(favorites, c)
       /\ db_op' = DbCall("remove_from_favorites", [company_name |-> c], TRUE,
                          \E row \in favorites : row.company_name = c)
  /\ UNCHANGED << now, logo_cache, search_history, orchVars >>

DbClearHistory ==
  /\ db_op.n < MaxDbOps
  /\ search_history' = clear_history(search_history)
  /\ db_op' = DbCall("clear_history", <<>>, TRUE, FALSE)
  /\ UNCHANGED << now, logo_cache, favorites, orchVars >>

\* a day passes
DbTick ==
  /\ db_op.n < MaxDbOps
  /\ now' = now + 1
  /\ db_op' = DbCall("tick", <<>>, TRUE, FALSE)
  /\ UNCHANGED << logo_cache, search_history, favorites, orchVars >>

InitDb ==
  /\ Init
  /\ settings \in AppSettings
  /\ enabled = [w \in Sources |-> TRUE]

NextDb ==
  \/ DbPut
  \/ DbGet
  \/ DbPurge
  \/ DbAddHistory
  \/ DbAddFavorite
  \/ DbRemoveFavorite
  \/ DbClearHistory
  \/ DbTick

SpecDb == InitDb /\ [][NextDb]_vars

(* ---------------------- generate_company_domains ---------------------- *)

\* Strings are sequences of one-character strings, so that lower(),
\* endswith(), re.sub(), split() and join() are computed character by
\* character.
UpperLetters == << "A", "B", "C", "D", "E", "F", "G", "H", "I", "J", "K", "L", "M",
                  "N", "O", "P", "Q", "R", "S", "T", "U", "V", "W", "X", "Y", "Z" >>
LowerLetters == << "a", "b", "c", "d", "e", "f", "g", "h", "i", "j", "k", "l", "m",
                  "n", "o", "p", "q", "r", "s", "t", "u", "v", "w", "x", "y", "z" >>
Digits == { "0", "1", "2", "3", "4", "5", "6", "7", "8", "9" }

\* str.lower() on one character
LowerChar(c) ==
  IF \E i \in 1..26 : UpperLetters[i] = c
  THEN LowerLetters[CHOOSE i \in 1..26 : UpperLetters[i] = c]
  ELSE c

\* str.lower()
lower(s) == [i \in 1..Len(s) |-> LowerChar(s[i])]

\* the classes \w and \s of the regular expression [^\w\s]
IsWordChar(c) ==
  \/ \E i \in 1..26 : UpperLetters[i] = c \/ LowerLetters[i] = c
  \/ c \in Digits
  \/ c = "_"
IsSpaceChar(c) == c \in { " ", "\t", "\n" }

\* str.endswith(suffix)
endswith(s, suffix) ==
  /\ Len(s) >= Len(suffix)
  /\ SubSeq(s, Len(s) - Len(suffix) + 1, Len(s)) = suffix

\* sub in s
contains(s, sub) ==
  \E i \in 1..(Len(s) + 1) :
    /\ i + Len(sub) - 1 <= Len(s)
    /\ SubSeq(s, i, i + Len(sub) - 1) = sub

\* re.sub(r'[^\w\s]', '', s)
re_sub(s) == SelectSeq(s, LAMBDA c : IsWordChar(c) \/ IsSpaceChar(c))

\* str.split(): the maximal runs of non-space characters
RECURSIVE split_from(_, _, _, _)
split_from(s, i, cur, acc) ==
  IF i > Len(s)
  THEN IF cur = <<>> THEN acc ELSE Append(acc, cur)
  ELSE IF IsSpaceChar(s[i])
       THEN split_from(s, i + 1, <<>>,
                       IF cur = <<>> THEN acc ELSE Append(acc, cur))
       ELSE split_from(s, i + 1, Append(cur, s[i]), acc)
split(s) == split_from(s, 1, <<>>, <<>>)

\* sep.join(parts)
RECURSIVE join(_, _)
join(parts, sep) ==
  IF parts = <<>> THEN <<>>
  ELSE IF Len(parts) = 1 THEN parts[1]
  ELSE parts[1] \o sep \o join(Tail(parts), sep)

legal_suffixes ==
  << << " ", "i", "n", "c" >>,
     << " ", "c", "o", "r", "p" >>,
     << " ", "l", "l", "c" >>,
     << " ", "l", "t", "d" >>,
     << " ", "l", "i", "m", "i", "t", "e", "d" >>,
     << " ", "g", "m", "b", "h" >>,
     << " ", "c", "o" >>,
     << " ", "c", "o", "m", "p", "a", "n", "y" >>,
     << " ", "c", "o", "r", "p", "o", "r", "a", "t", "i", "o", "n" >> >>

\* a loop that strips nothing
strip_suffixes_none(clean_name, i) == clean_name

\* for suffix in legal_suffixes: if clean_name.endswith(suffix): strip it.
\* Each suffix is tried once, in list order, on what the earlier ones left.
RECURSIVE strip_suffixes(_, _)
strip_suffixes(clean_name, i) ==
  IF i > Len(legal_suffixes) THEN clean_name
  ELSE strip_suffixes(
         IF endswith(clean_name, legal_suffixes[i])
         THEN SubSeq(clean_name, 1, Len(clean_name) - Len(legal_suffixes[i]))
         ELSE clean_name,
         i + 1)

\* clean_name as the overrides see it
clean_name_of(company_name) == re_sub(strip_suffixes(lower(company_name), 1))

\* ''.join(part[0] for part in parts)
initials(parts) == [i \in 1..Len(parts) |-> parts[i][1]]

\* the list `domains'
domain_bases(name_parts) ==
  << join(name_parts, <<>>), join(name_parts, << "-" >>) >>
  \o (IF Len(name_parts) > 1
      THEN << initials(SubSeq(name_parts, 1, Len(name_parts) - 1))
              \o name_parts[Len(name_parts)] >>
      ELSE <<>>)
  \o (IF Len(name_parts) > 1 THEN << initials(name_parts) >> ELSE <<>>)

TLDs == << << ".", "c", "o", "m" >>,
          << ".", "o", "r", "g" >>,
          << ".", "i", "o" >>,
          << ".", "c", "o" >>,
          << ".", "n", "e", "t" >> >>

kw_google == << "g", "o", "o", "g", "l", "e" >>
kw_microsoft == << "m", "i", "c", "r", "o", "s", "o", "f", "t" >>
kw_amazon == << "a", "m", "a", "z", "o", "n" >>
kw_facebook == << "f", "a", "c", "e", "b", "o", "o", "k" >>
kw_meta == << "m", "e", "t", "a" >>
kw_apple == << "a", "p", "p", "l", "e" >>
dot_com == TLDs[1]

\* the special cases: an if / elif chain, so the first test that holds
\* decides and the later ones are not evaluated
special_cases(clean_name) ==
  IF contains(clean_name, kw_google) THEN << kw_google \o dot_com >>
  ELSE IF contains(clean_name, kw_microsoft) THEN << kw_microsoft \o dot_com >>
  ELSE IF contains(clean_name, kw_amazon) THEN << kw_amazon \o dot_com >>
  ELSE IF contains(clean_name, kw_facebook) \/ contains(clean_name, kw_meta)
       THEN << kw_facebook \o dot_com, kw_meta \o dot_com >>
  ELSE IF contains(clean_name, kw_apple) THEN << kw_apple \o dot_com >>
  ELSE <<>>

\* generate_company_domains: list(set(result))
generate_company_domains(company_name) ==
  LET clean_name == clean_name_of(company_name)
      domains == domain_bases(split(clean_name))
      result ==
        [k \in 1..(Len(domains) * Len(TLDs)) |->
           domains[((k - 1) \div Len(TLDs)) + 1]
           \o TLDs[((k - 1) % Len(TLDs)) + 1]]
        \o << company_name >>
        \o special_cases(clean_name)
  IN { result[k] : k \in 1..Len(result) }

\* self.domains[:3] of search_brandfetch and search_companywebsite
PROBED_DOMAINS == 3

\* list(set(result))[:3]: the iteration order of a set of str follows the
\* hashes of its members, which Python salts anew in every process, so the
\* first entries of the list can be any members of the set in any order
first_domains(domain_set) ==
  LET k == IF Cardinality(domain_set) < PROBED_DOMAINS
           THEN Cardinality(domain_set) ELSE PROBED_DOMAINS
  IN { d \in [1..k -> domain_set] : \A i, j \in 1..k : i # j => d[i] # d[j] }

(* --------------------- Python numbers (int and float) ------------------ *)

\* a Python number: its type and its value in tenths
PyInt(n) == [type |-> "int", tenths |-> 10 * n]

\* a / b: true division, a float whatever the operands (b divides 10 * a
\* exactly for the operands of this program)
PyTrueDiv(a, b) == [type |-> "float", tenths |-> (10 * a.tenths) \div b.tenths]

\* a + b: a float as soon as one operand is a float
PyAdd(a, b) ==
  [type |-> IF a.type = "float" \/ b.type = "float" THEN "float" ELSE "int",
   tenths |-> a.tenths + b.tenths]

(* ------------------------- search_companywebsite ---------------------- *)

LOGO_CLASS_BONUS == 20
LOGO_ID_BONUS == 20
LOGO_ALT_BONUS == 15
LOGO_SRC_BONUS == 10
LOGO_SIZE_BONUS == 10
CANDIDATE_THRESHOLD == 20
SCORE_DIVISOR == 10

Formats == { "png", "svg", "jpg" }

\* an <img>: where 'logo' occurs, and whether width and height are in range
Imgs == [class : BOOLEAN, id : BOOLEAN, alt : BOOLEAN, src : BOOLEAN,
         size : BOOLEAN]

\* the heuristic score of one <img>
img_score(img) ==
  (IF img.class THEN LOGO_CLASS_BONUS ELSE 0)
  + (IF img.id THEN LOGO_ID_BONUS ELSE 0)
  + (IF img.alt THEN LOGO_ALT_BONUS ELSE 0)
  + (IF img.src THEN LOGO_SRC_BONUS ELSE 0)
  + (IF img.size THEN LOGO_SIZE_BONUS ELSE 0)

\* LogoResult(..., source="CompanyWebsite", score=score / 10)
website_result(img, format_type) ==
  [format_type |-> format_type,
   score |-> PyTrueDiv(PyInt(img_score(img)), PyInt(SCORE_DIVISOR))]

\* add_result on Python numbers: result.score += base_quality, and += 10
\* for an svg; += on a float gives a float
add_result_py(raw, source) ==
  LET with_quality == PyAdd(raw.score, PyInt(source.base_quality))
  IN [company_name |-> Company, source |-> source.name,
      format_type |-> raw.format_type, image_data |-> "content",
      score |-> IF raw.format_type = "svg"
                THEN PyAdd(with_quality, PyInt(SVG_BONUS))
                ELSE with_quality]

(* ------------------ search_googlesearch, search_bingsearch ------------ *)

\* a credential test that lets the call go ahead with one of the two
google_unconfigured_both(api_key, cx) == api_key = "" /\ cx = ""

\* if not api_key or not cx
google_unconfigured(api_key, cx) == api_key = "" \/ cx = ""

\* if not api_key
bing_unconfigured(api_key) == api_key = ""

\* what one run of a keyed search method does, given what the network
\* answers (net.status: the status of the API response, net.items: the
\* images of the answer that download with status 200): the progress
\* messages it emits, the requests it sends, the results it hands to
\* add_result and the value it returns
keyed_search(unconfigured, net) ==
  IF unconfigured
  THEN [progress |-> << "warning" >>, requests |-> 0, candidates |-> <<>>,
        ok |-> FALSE]
  ELSE IF net.status = 200
       THEN [progress |-> [i \in 1..net.items |-> "found"],
             requests |-> 1 + net.items,
             candidates |-> [i \in 1..net.items |->
                               [format_type |-> "png", score |-> 5]],
             ok |-> net.items > 0]
       ELSE [progress |-> <<>>, requests |-> 1, candidates |-> <<>>,
             ok |-> FALSE]

search_googlesearch(s, net) ==
  keyed_search(google_unconfigured(Get(s, "google_api_key", ""),
                                   Get(s, "google_cx", "")), net)

search_bingsearch(s, net) ==
  keyed_search(bing_unconfigured(Get(s, "bing_api_key", "")), net)

(* ------------------- the pure functions on their own ------------------ *)

\* words a company name is made of
MaxWords == 3

Words ==
  { << "A", "c", "m", "e" >>,
    << "I", "n", "c" >>,
    << "C", "o" >>,
    << "G", "o", "o", "g", "l", "e" >>,
    << "C", "l", "o", "u", "d" >>,
    << "A", "p", "p", "l", "e" >>,
    << "M", "e", "t", "a" >>,
    << "I", "n", "c", "." >> }

\* the company names: one to MaxWords words with single spaces between
CompanyNames ==
  { join(ws, << " " >>) : ws \in UNION { [1..n -> Words] : n \in 1..MaxWords } }

\* the scores the adapters construct a LogoResult with
DeclaredScores == { 0, 5, 10, 15, 20 }

SourceByName(name) ==
  LOGO_SOURCES[CHOOSE i \in 1..Len(LOGO_SOURCES) : LOGO_SOURCES[i].name = name]

\* images one API answer lists at most
MaxItems == 2

\* the settings a keyed adapter can be handed: flat dicts with the three
\* credentials set or empty, and the nested dict of the application
KeyedSettings ==
  [google_api_key : { "", "key" }, google_cx : { "", "cx" },
   bing_api_key : { "", "key" }] \cup AppSettings

NetAnswers == [status : { 200, 500 }, items : 0..MaxItems]

\* the settings a worker can be handed as far as its search method reads
\* them: the Brandfetch key and the two download toggles
AdapterSettings ==
  [brandfetch_api_key : { "", "key" }, download_png : BOOLEAN,
   download_svg : BOOLEAN]

FnCall(op, arg, ret) ==
  [op |-> op, n |-> 1, arg |-> arg, ret |-> ret, hit |-> FALSE]

pureFrame == << settings, enabled, now, logo_cache, search_history, favorites,
                db_op, db_healthy, sent, pc, cache_results, results, workers,
                completed_sources, active_workers, search_queue, wstate,
                emitted, terminals, events, result_signals, out_complete >>

\* add_result on one LogoResult of one source
PureAddResult ==
  /\ fn.op = "none"
  /\ \E i \in 1..Len(LOGO_SOURCES), f \in Formats, sc \in DeclaredScores :
       fn' = FnCall("add_result",
                    [source |-> LOGO_SOURCES[i].name, format_type |-> f,
                     score |-> sc],
                    add_result([format_type |-> f, score |-> sc],
                               LOGO_SOURCES[i]))
  /\ UNCHANGED pureFrame

\* search_companywebsite on one <img> it takes as a candidate, up to the
\* result add_result emits
PureWebsite ==
  /\ fn.op = "none"
  /\ \E img \in Imgs, f \in Formats :
       /\ img_score(img) >= CANDIDATE_THRESHOLD
       /\ fn' = FnCall("search_companywebsite",
                       [img |-> img, format_type |-> f],
                       add_result_py(website_result(img, f),
                                     SourceByName("CompanyWebsite")))
  /\ UNCHANGED pureFrame

\* generate_company_domains on one company name
PureDomains ==
  /\ fn.op = "none"
  /\ \E name \in CompanyNames :
       fn' = FnCall("generate_company_domains", name,
                    generate_company_domains(name))
  /\ UNCHANGED pureFrame

\* a keyed search method on one settings dict and one network answer
PureKeyedSearch ==
  /\ fn.op = "none"
  /\ \E s \in KeyedSettings, net \in NetAnswers :
       \/ fn' = FnCall("search_googlesearch", [settings |-> s, net |-> net],
                       search_googlesearch(s, net))
       \/ fn' = FnCall("search_bingsearch", [settings |-> s, net |-> net],
                       search_bingsearch(s, net))
  /\ UNCHANGED pureFrame

\* the search method of one source on one settings dict: the results it
\* can emit through add_result
PureSearchMethod ==
  /\ fn.op = "none"
  /\ \E i \in 1..Len(LOGO_SOURCES), s \in AdapterSettings :
       fn' = FnCall("search_method",
                    [source |-> LOGO_SOURCES[i].name, settings |-> s],
                    { add_result(raw, LOGO_SOURCES[i]) :
                        raw \in AdapterCandidates(LOGO_SOURCES[i].name, s) })
  /\ UNCHANGED pureFrame

\* two runs of the program on one company name (a single word): what
\* self.domains[:3] is in each
PureDomainsTwoRuns ==
  /\ fn.op = "none"
  /\ \E name \in Words :
       \E run1, run2 \in first_domains(generate_company_domains(name)) :
         fn' = FnCall("domains[:3]", name, << run1, run2 >>)
  /\ UNCHANGED pureFrame

InitPure ==
  /\ Init
  /\ settings \in AppSettings
  /\ enabled = [w \in Sources |-> TRUE]
  /\ logo_cache = {}

NextPure ==
  \/ PureAddResult
  \/ PureWebsite
  \/ PureDomains
  \/ PureKeyedSearch
  \/ PureSearchMethod
  \/ PureDomainsTwoRuns

SpecPure == InitPure /\ [][NextPure]_vars

(* ------------------------------ properties ---------------------------- *)

NoneEnabled == \A w \in Sources : ~ enabled[w]
Quiescent == events = <<>> /\ \A w \in Sources : ~ isRunning(w)
HistoryOf(company_name) ==
  { row \in search_history : row.company_name = company_name }
CacheHits == Len(cache_results)
TotalEmitted == SumOver(emitted, Sources)

\* workers that were started and whose search_complete has not been handled
Unprocessed ==
  { w \in Sources : /\ wstate[w] # "idle"
                    /\ LOGO_SOURCES[w].name \notin completed_sources }

EarlyStopped == \E i \in DOMAIN out_complete : out_complete[i].path = "early"

\* C1: a search with no enabled source and an empty cache ends with one
\* completion event (success = false, no results) and one history row with
\* results_count = 0.  start_search is the only code that runs in such a
\* search, so the event has to be there once start_search has returned.
C1_ZeroSourcesCompletes ==
  (pc = "started" /\ NoneEnabled /\ logo_cache = {} /\ Quiescent)
    => /\ Len(out_complete) = 1
       /\ ~ out_complete[1].success
       /\ out_complete[1].count = 0
       /\ \E row \in HistoryOf(Company) :
            HistoryOf(Company) = {row} /\ row.results_count = 0

\* C2: the workers started and not yet handled as complete, and so the
\* workers running, never number more than concurrent_searches.
C2_ConcurrencyBound ==
  /\ Cardinality(Unprocessed) <= max_concurrent
  /\ Cardinality({ w \in Sources : isRunning(w) }) <= max_concurrent

C2_Witness ==
  /\ Cardinality(Unprocessed) = max_concurrent
  /\ search_queue # <<>>
  /\ events # <<>>
  /\ \E w \in Sources : wstate[w] \in {"finished", "raised"} /\ w \in Unprocessed

\* C3: one manager emits search_complete at most once.
C3_CompleteAtMostOnce == Len(out_complete) <= 1

\* C4: whenever search_complete has been emitted, search_history holds one
\* row for the company, with results_count the size of the delivered list.
C4_HistoryWrittenOnCompletion ==
  out_complete # <<>>
    => \E row \in HistoryOf(Company) :
         /\ HistoryOf(Company) = {row}
         /\ row.results_count = Last(out_complete).count

\* C5: once the early stop has fired no worker is running uncancelled and
\* no queued source is started any more.
C5_NoStartAfterEarlyStop ==
  [][ EarlyStopped =>
        /\ workers' = workers
        /\ search_queue' = search_queue
        /\ \A w \in Sources : wstate'[w] # "running" ]_vars

\* C6: after search_complete has been emitted no result is emitted, the
\* result list does not grow and no cache row is written.
C6_LateResultsDropped ==
  [][ out_complete # <<>> =>
        /\ result_signals' = result_signals
        /\ results' = results
        /\ logo_cache' = logo_cache ]_vars

\* C7: with search_all_sources off, the list delivered with search_complete
\* is never longer than the cache hits plus the candidates the adapters had
\* emitted by then, so it has max_results entries only if that many existed.
C7_DeliveredWithinProduced ==
  [][ (~ search_all_sources /\ out_complete' # out_complete) =>
        /\ Last(out_complete').count <= CacheHits' + TotalEmitted'
        /\ Last(out_complete').count >= max_results
             => CacheHits' + TotalEmitted' >= max_results ]_vars

C7_Witness ==
  /\ ~ search_all_sources
  /\ max_results = 2
  /\ out_complete # <<>>
  /\ out_complete[1].path = "early"
  /\ out_complete[1].count = 2
  /\ CacheHits = 1
  /\ TotalEmitted >= 2

\* C8: when the fresh cache rows number at least max_results and
\* search_all_sources is off, start_search emits the cached results and
\* search_complete and neither queues nor starts a source.
C8_CacheShortcut ==
  (pc = "started" /\ ~ search_all_sources /\ CacheHits >= max_results)
    => /\ out_complete # <<>>
       /\ out_complete[1].path = "cache"
       /\ out_complete[1].count = CacheHits
       /\ result_signals >= CacheHits
       /\ workers = <<>>
       /\ search_queue = <<>>

\* C9: every search_complete carries success = (delivered list not empty),
\* and success = false only if neither the cache nor any adapter produced a
\* candidate.
C9_SuccessIffResults ==
  \A i \in DOMAIN out_complete :
    /\ out_complete[i].success = (out_complete[i].count > 0)
    /\ ~ out_complete[i].success => (CacheHits = 0 /\ TotalEmitted = 0)

C9_Witness ==
  /\ out_complete # <<>>
  /\ ~ out_complete[1].success
  /\ \E w \in Sources : wstate[w] = "raised"
  /\ \E w \in Sources : wstate[w] = "finished"

\* C10: a worker whose run() has ended has emitted exactly one
\* search_complete, with ok = false unless the search method returned true
\* (a raising method included); handling a failed worker's event frees its
\* slot and starts the next queued source.
C10_FailureIsolated ==
  /\ [](\A w \in Sources :
          /\ terminals[w] = (IF wstate[w] \in {"finished", "raised"} THEN 1 ELSE 0)
          /\ \A i \in DOMAIN events :
               (events[i].type = "complete" /\ events[i].source = LOGO_SOURCES[w].name)
                 => (events[i].ok => (wstate[w] = "finished" /\ emitted[w] > 0)))
  /\ [][ ( /\ events # <<>>
           /\ Head(events).type = "complete"
           /\ ~ Head(events).ok
           /\ events' = Tail(events) )
         => /\ Head(events).source \in completed_sources'
            /\ active_workers' - (Len(workers') - Len(workers)) = active_workers - 1
            /\ search_queue # <<>> => Len(workers') > Len(workers) ]_vars

C10_Witness ==
  \E w \in Sources :
    /\ wstate[w] = "raised"
    /\ LOGO_SOURCES[w].name \in completed_sources
    /\ Len(workers) > max_concurrent

SameKey(r1, r2) ==
  /\ r1.company_name = r2.company_name
  /\ r1.source = r2.source
  /\ r1.format_type = r2.format_type

\* C11: logo_cache never holds two rows with one (company_name, source,
\* format_type), and after add_to_cache the row with the written key holds
\* the bytes and score just written and the time of this write, while the
\* rows of other keys stay as they were.
C11_CacheUpsert ==
  /\ [](\A r1, r2 \in logo_cache : SameKey(r1, r2) => r1 = r2)
  /\ [][ db_op'.op = "add_to_cache" =>
           /\ \E row \in logo_cache' :
                /\ SameKey(row, db_op'.arg)
                /\ row.image_data = db_op'.arg.image_data
                /\ row.score = db_op'.arg.score
                /\ row.timestamp = now'
           /\ \A row \in logo_cache :
                ~ SameKey(row, db_op'.arg) => row \in logo_cache'
           /\ Cardinality(logo_cache') =
                Cardinality({ row \in logo_cache : ~ SameKey(row, db_op'.arg) }) + 1
       ]_vars

\* a second write of a key, with other bytes, a day after the first
C11_Witness ==
  /\ db_op.op = "add_to_cache"
  /\ db_op.hit
  /\ db_op.arg.image_data = "content2"
  /\ now > Now0
  /\ Cardinality(logo_cache) = 2
  /\ \E row \in logo_cache :
       SameKey(row, db_op.arg) /\ row.timestamp = now /\ row.image_data = "content2"

\* C12: get_from_cache(company_name, max_age_days) returns the rows of that
\* company whose age is below max_age_days, each once, in non-increasing
\* score order, and leaves logo_cache as it was.
C12_GetFreshSorted ==
  [][ db_op'.op = "get_from_cache" =>
        LET c == db_op'.arg.company_name
            a == db_op'.arg.max_age_days
            r == db_op'.ret
            wanted == { row \in logo_cache :
                          row.company_name = c /\ now - row.timestamp < a }
        IN /\ logo_cache' = logo_cache
           /\ Len(r) = Cardinality(wanted)
           /\ \A row \in wanted :
                \E i \in 1..Len(r) :
                  /\ SameKey(r[i], row)
                  /\ r[i].image_data = row.image_data
                  /\ r[i].score = row.score
           /\ \A i \in 1..Len(r) : \E row \in wanted : SameKey(r[i], row)
           /\ \A i, j \in 1..Len(r) : i < j => r[i].score >= r[j].score
    ]_vars

\* two rows returned, best first, and a row of the company left out for
\* being exactly max_age_days old
C12_Witness ==
  /\ db_op.op = "get_from_cache"
  /\ Len(db_op.ret) = 2
  /\ db_op.ret[1].score > db_op.ret[2].score
  /\ \E row \in logo_cache :
       /\ row.company_name = db_op.arg.company_name
       /\ now - row.timestamp = db_op.arg.max_age_days

\* C13: clear_cache(max_age_days) deletes the rows older than max_age_days
\* and no other; clear_cache() leaves logo_cache empty.
C13_PurgeByAge ==
  [][ db_op'.op = "clear_cache" =>
        IF db_op'.arg.given
        THEN logo_cache' =
               { row \in logo_cache :
                   ~ (now - row.timestamp > db_op'.arg.max_age_days) }
        ELSE logo_cache' = {}
    ]_vars

\* the first call purges a table with a 30 days old row and a row exactly
\* max_age_days old: only the latter is left
C13_Witness ==
  /\ db_op.op = "clear_cache"
  /\ db_op.n = 1
  /\ db_op.arg.given
  /\ db_op.arg.max_age_days = 1
  /\ \E row \in logo_cache :
       /\ logo_cache = {row}
       /\ row.company_name = OtherCompany
       /\ now - row.timestamp = 1

\* C14: add_to_cache, get_from_cache, clear_cache and the passing of time
\* leave search_history and favorites as they are, and a company's favorite
\* goes away only by remove_from_favorites for that company.
C14_NoAutoExpiry ==
  [][ /\ db_op'.op \in {"add_to_cache", "get_from_cache", "clear_cache", "tick"}
         => (search_history' = search_history /\ favorites' = favorites)
      /\ \A row \in favorites :
           (\A row2 \in favorites' : row2.company_name # row.company_name)
             => /\ db_op'.op = "remove_from_favorites"
                /\ db_op'.arg.company_name = row.company_name
    ]_vars

\* a favorite of the other company and a history row are still there, a day
\* old, after the favorite of the company was removed
C14_Witness ==
  /\ db_op.op = "remove_from_favorites"
  /\ db_op.hit
  /\ db_op.arg.company_name = Company
  /\ \E row \in favorites : row.company_name = OtherCompany
  /\ \A row \in favorites : row.company_name # Company

\* C15: favorites and search_history hold at most one row per company_name,
\* and after add_to_favorites / add_to_history the company's row holds the
\* values of that call and the time of the call.
C15_LedgerUpsert ==
  /\ [](/\ \A r1, r2 \in favorites : r1.company_name = r2.company_name => r1 = r2
        /\ \A r1, r2 \in search_history :
             r1.company_name = r2.company_name => r1 = r2)
  /\ [][ /\ db_op'.op = "add_to_favorites" =>
              \E row \in favorites' :
                /\ row.company_name = db_op'.arg.company_name
                /\ row.image_data = db_op'.arg.image_data
                /\ row.format_type = db_op'.arg.format_type
                /\ row.timestamp = now'
         /\ db_op'.op = "add_to_history" =>
              \E row \in search_history' :
                /\ row.company_name = db_op'.arg.company_name
                /\ row.results_count = db_op'.arg.results_count
                /\ row.timestamp = now'
       ]_vars

\* the company's favorite was written a second time, with other bytes
C15_Witness ==
  /\ db_op.op = "add_to_favorites"
  /\ db_op.hit
  /\ db_op.n = 2
  /\ now = Now0
  /\ db_op.arg.image_data = "content2"
  /\ favorites = { [company_name |-> Company, image_data |-> "content2",
                    format_type |-> "png", timestamp |-> now] }

\* C16: add_result leaves the score at the score the adapter set plus the
\* source's base_quality, plus 10 exactly when format_type is "svg": base
\* quality 80, svg and a score of 10 give 100.
C16_ScorerAdditive ==
  fn.op = "add_result" =>
    LET base_quality == SourceByName(fn.arg.source).base_quality
    IN /\ fn.ret.score =
            fn.arg.score + base_quality
            + (IF fn.arg.format_type = "svg" THEN 10 ELSE 0)
       /\ (base_quality = 80 /\ fn.arg.format_type = "svg" /\ fn.arg.score = 10)
            => fn.ret.score = 100
       /\ fn.ret.format_type = fn.arg.format_type
       /\ fn.ret.source = fn.arg.source

\* the example: SimpleIcons (base_quality 80), svg, score 10
C16_Witness ==
  /\ fn.op = "add_result"
  /\ fn.arg = [source |-> "SimpleIcons", format_type |-> "svg", score |-> 10]
  /\ fn.ret.score = 100

\* the score one pass of the scorer gives a candidate the adapter of the
\* source can construct
OnePass(r) ==
  \E raw \in AdapterCandidates(r.source, settings) :
    /\ raw.format_type = r.format_type
    /\ r.score = raw.score + SourceByName(r.source).base_quality
                 + (IF r.format_type = "svg" THEN 10 ELSE 0)

\* C17: every result the manager holds and every row of logo_cache has the
\* score of exactly one scorer pass, and a result loaded from the cache has
\* the score of the row under its key; so the score under a key is the same
\* before and after a search that writes the key again.
C17_OneScorerPass ==
  /\ \A i \in DOMAIN results : OnePass(results[i])
  /\ \A row \in logo_cache : OnePass(row)
  /\ \A i \in DOMAIN cache_results :
       \E row \in logo_cache :
         SameKey(row, cache_results[i]) /\ row.score = cache_results[i].score

\* a result loaded from the cache, the same candidate found again by its
\* adapter, and the row of the key written again: one score in all three
C17_Witness ==
  \E i, j \in DOMAIN results :
    /\ i <= Len(cache_results)
    /\ j > Len(cache_results)
    /\ SameKey(results[i], results[j])
    /\ results[i].score = results[j].score
    /\ \E row \in logo_cache :
         /\ SameKey(row, results[j])
         /\ row.timestamp = now
         /\ row.score = results[j].score

\* C18: the score of every result add_result emits is an integer, also for
\* the results search_companywebsite makes from an <img> whose heuristic
\* score is 20 or more.
C18_IntegerScore ==
  /\ fn.op = "add_result" => fn.ret.score \in Int
  /\ fn.op = "search_companywebsite" => fn.ret.score.type = "int"

\* the listed suffixes the lower-cased name ends with
SuffixesOf(company_name) ==
  { i \in 1..Len(legal_suffixes) :
      endswith(lower(company_name), legal_suffixes[i]) }

\* the name parts of the lower-cased name with the suffix taken off
PartsWithout(company_name, suffix) ==
  split(re_sub(SubSeq(lower(company_name), 1,
                      Len(company_name) - Len(suffix))))

\* ret has base + tld for the joined and the hyphenated parts, and has
\* neither with the suffix word still on
DomainsOfStripped(company_name, suffix, ret) ==
  LET parts == PartsWithout(company_name, suffix)
      kept == Append(parts, Tail(suffix))
  IN \A t \in 1..Len(TLDs) :
       /\ join(parts, <<>>) \o TLDs[t] \in ret
       /\ join(parts, << "-" >>) \o TLDs[t] \in ret
       /\ join(kept, <<>>) \o TLDs[t] \notin ret
       /\ join(kept, << "-" >>) \o TLDs[t] \notin ret

name_AcmeInc == << "A", "c", "m", "e", " ", "I", "n", "c" >>
name_GoogleCloud == << "G", "o", "o", "g", "l", "e", " ", "C", "l", "o", "u", "d" >>

\* "Acme Inc" and "Google Cloud"
DomainExamples(company_name, ret) ==
  /\ company_name = name_AcmeInc =>
       /\ \A t \in 1..Len(TLDs) :
            /\ << "a", "c", "m", "e" >> \o TLDs[t] \in ret
            /\ << "a", "c", "m", "e", "i", "n", "c" >> \o TLDs[t] \notin ret
            /\ << "a", "c", "m", "e", "-", "i", "n", "c" >> \o TLDs[t] \notin ret
  /\ company_name = name_GoogleCloud =>
       /\ << "g", "o", "o", "g", "l", "e", ".", "c", "o", "m" >> \in ret
       /\ << "g", "o", "o", "g", "l", "e", "c", "l", "o", "u", "d", ".", "c", "o", "m" >> \in ret
       /\ << "g", "o", "o", "g", "l", "e", "-", "c", "l", "o", "u", "d", ".", "c", "o", "m" >> \in ret

\* C19 as stated: for a name whose lower-cased form ends with a listed
\* suffix, the domains are built from the name with that suffix removed and
\* none carries the suffix word; "Google Cloud" also yields google.com.
C19_DomainsOfSuffixedName ==
  fn.op = "generate_company_domains" =>
    /\ \A i \in SuffixesOf(fn.arg) :
         DomainsOfStripped(fn.arg, legal_suffixes[i], fn.ret)
    /\ DomainExamples(fn.arg, fn.ret)

\* C19, amended: the same for a name that ends with a listed suffix and,
\* with that suffix taken off, ends with no listed suffix (the loop tries
\* every suffix once, so "Acme Co Inc" loses " inc" and then " co").
C19_DomainsOfOnceSuffixedName ==
  fn.op = "generate_company_domains" =>
    /\ \A i \in SuffixesOf(fn.arg) :
         (\A k \in 1..Len(legal_suffixes) :
            ~ endswith(SubSeq(lower(fn.arg), 1,
                              Len(fn.arg) - Len(legal_suffixes[i])),
                       legal_suffixes[k]))
           => DomainsOfStripped(fn.arg, legal_suffixes[i], fn.ret)
    /\ DomainExamples(fn.arg, fn.ret)

\* "Acme Inc": acme.com is there, acmeinc.com is not
C19_Witness ==
  /\ fn.op = "generate_company_domains"
  /\ fn.arg = name_AcmeInc
  /\ SuffixesOf(fn.arg) = { 1 }
  /\ << "a", "c", "m", "e", ".", "c", "o", "m" >> \in fn.ret
  /\ << "a", "c", "m", "e", "i", "n", "c", ".", "c", "o", "m" >> \notin fn.ret

\* C20: for every keyword that occurs in the cleaned name, the domains of
\* that keyword are in the returned set, whatever other keywords occur.
C20_OverridesIndependent ==
  fn.op = "generate_company_domains" =>
    LET clean_name == clean_name_of(fn.arg)
    IN /\ contains(clean_name, kw_google) => kw_google \o dot_com \in fn.ret
       /\ contains(clean_name, kw_microsoft) => kw_microsoft \o dot_com \in fn.ret
       /\ contains(clean_name, kw_amazon) => kw_amazon \o dot_com \in fn.ret
       /\ (contains(clean_name, kw_facebook) \/ contains(clean_name, kw_meta))
            => /\ kw_facebook \o dot_com \in fn.ret
               /\ kw_meta \o dot_com \in fn.ret
       /\ contains(clean_name, kw_apple) => kw_apple \o dot_com \in fn.ret

C23_MissingCredential ==
  LET s == fn.arg.settings
      refused == /\ fn.ret.progress = << "warning" >>
                 /\ fn.ret.requests = 0
                 /\ fn.ret.candidates = <<>>
                 /\ ~ fn.ret.ok
  IN /\ ( /\ fn.op = "search_googlesearch"
          /\ \/ "google_api_key" \notin DOMAIN s
             \/ "google_cx" \notin DOMAIN s
             \/ s.google_api_key = ""
             \/ s.google_cx = "" ) => refused
     /\ ( /\ fn.op = "search_bingsearch"
          /\ \/ "bing_api_key" \notin DOMAIN s
             \/ s.bing_api_key = "" ) => refused

\* the API key is set, the CX is not, and the API would have answered
C23_Witness ==
  /\ fn.op = "search_googlesearch"
  /\ "google_cx" \in DOMAIN fn.arg.settings
  /\ fn.arg.settings.google_api_key = "key"
  /\ fn.arg.settings.google_cx = ""
  /\ fn.arg.net = [status |-> 200, items |-> 1]
  /\ fn.ret.requests = 0
  /\ ~ fn.ret.ok

\* C24: the list that goes out with search_complete has at most one result
\* per (source, format_type).
C24_ResultsDeduplicated ==
  [][ Len(out_complete') > Len(out_complete) =>
        \A i, j \in DOMAIN results' :
          (i # j) => ~ ( /\ results'[i].source = results'[j].source
                         /\ results'[i].format_type = results'[j].format_type )
    ]_vars

\* the results behind the cache hits that came from worker w
FromWorker(w) ==
  SelectSeq(SubSeq(results, Len(cache_results) + 1, Len(results)),
            LAMBDA r : r.source = LOGO_SOURCES[w].name)

\* C25: with search_all_sources, once search_complete has been emitted every
\* enabled source has been started once and its search_complete has been
\* handled, and the results are the cache hits followed by all that the
\* workers emitted, those of one worker in the order it emitted them.
C25_SearchAllIsComplete ==
  (search_all_sources /\ out_complete # <<>>) =>
    /\ \A w \in Sources :
         enabled[w] =>
           /\ Cardinality({ i \in DOMAIN workers : workers[i] = w }) = 1
           /\ terminals[w] = 1
           /\ LOGO_SOURCES[w].name \in completed_sources
    /\ SubSeq(results, 1, Len(cache_results)) = cache_results
    /\ \A w \in Sources : FromWorker(w) = sent[w]
    /\ Len(results) = Len(cache_results) + SumOver([w \in Sources |-> Len(sent[w])], Sources)
    /\ events = <<>>

\* a search of every source that ended with cache hits and with two
\* different results of one worker
C25_Witness ==
  /\ search_all_sources
  /\ out_complete # <<>>
  /\ \A w \in Sources : enabled[w]
  /\ cache_results # <<>>
  /\ \E w \in Sources : Len(sent[w]) = 2 /\ sent[w][1] # sent[w][2]

\* C26: a started search with an enabled source, concurrent_searches >= 1
\* and max_results >= 1 emits search_complete in the end, with and without
\* search_all_sources.
C26_SearchTerminates ==
  ( /\ pc = "started"
    /\ ~ NoneEnabled
    /\ max_concurrent >= 1
    /\ max_results >= 1 ) ~> (out_complete # <<>>)

\* a search that went through its whole queue, one worker after the other,
\* found nothing and completed
C26_Witness ==
  /\ ~ search_all_sources
  /\ max_results >= 1
  /\ max_concurrent = 1
  /\ \A w \in Sources : enabled[w] /\ wstate[w] \in {"finished", "raised"}
  /\ results = <<>>
  /\ Len(out_complete) = 1
  /\ out_complete[1].path = "drain"

\* C27: active_workers is never negative; while sources are queued and no
\* search_complete has gone out, active_workers equals max_concurrent; and
\* handling the search_complete of a worker takes one off active_workers
\* before the workers started in the same call are added.
C27_NoIdleSlot ==
  /\ [](/\ active_workers >= 0
        /\ (pc = "started" /\ search_queue # <<>> /\ out_complete = <<>>)
             => active_workers = max_concurrent)
  /\ [][ ( /\ events # <<>>
           /\ Head(events).type = "complete"
           /\ events' = Tail(events) )
         => active_workers' =
              active_workers - 1 + (Len(workers') - Len(workers))
       ]_vars

\* a worker has completed, the freed slot went to the next queued source
\* and the pool is full again
C27_Witness ==
  /\ max_concurrent = 1
  /\ completed_sources # {}
  /\ Len(workers) = 2
  /\ active_workers = 1
  /\ out_complete = <<>>

\* C28: a manager created with the settings dict of the application runs
\* with the values of that dict: its pool never exceeds
\* advanced.concurrent_searches, and without general.search_all_sources it
\* completes once general.max_results results are in.
C28_AppSettingsApplied ==
  settings \in AppSettings =>
    /\ active_workers <= settings.advanced.concurrent_searches
    /\ ( /\ pc = "started"
         /\ ~ settings.general.search_all_sources
         /\ Len(results) >= settings.general.max_results )
       => out_complete # <<>>

\* C29: with download_svg off no search method emits an svg result, and
\* with download_png off none emits a png result.
C29_FormatTogglesGate ==
  fn.op = "search_method" =>
    \A r \in fn.ret :
      /\ ~ fn.arg.settings.download_svg => r.format_type # "svg"
      /\ ~ fn.arg.settings.download_png => r.format_type # "png"

\* C30: two runs on one company name give the adapters the same first
\* three domains, in the same order.
C30_DomainOrderDeterministic ==
  fn.op = "domains[:3]" => fn.ret[1] = fn.ret[2]

====
